---------------------------- MODULE Spec2Model ----------------------------
(***************************************************************************)
(* Beam-analysis report generator: the loader (read_forces), the validator *)
(* (validate_forces), the equilibrium solver (compute_reactions), the      *)
(* diagram sampler (sample_sfd_bmd), the report pipeline of                *)
(* generate_report.main with its LaTeX build fallback, and the             *)
(* precomputed-diagram path of scripts/plot_contour_diagrams.py.           *)
(*                                                                         *)
(* Numbers.  A float is modelled as an exact normalised fraction <<n, d>>  *)
(* with d > 0; the IEEE specials the code can produce are the fractions    *)
(* with d = 0: <<1, 0>> is +inf, <<-1, 0>> is -inf and <<0, 0>> is NaN     *)
(* (which is also what pandas stores for an empty cell).                   *)
(*                                                                         *)
(* Text.  A column name is a sequence of one-character strings, so that    *)
(* str.lower, str.strip and the substring test `k in c` are computed.      *)
(***************************************************************************)
EXTENDS Integers, Sequences, FiniteSets, TLC

VARIABLES
    pc,          \* position of the running script
    table,       \* what pd.read_excel returned: [columns, rows]
    pos_col,     \* read_forces: the column label chosen for "pos"
    mag_col,     \* read_forces: the column label chosen for "mag"
    forces,      \* the loads data frame: sequence of <<pos, mag>>
    validated,   \* validate_forces has returned without raising
    L,           \* span length
    RA, RB,      \* support reactions (None until computed)
    x, shear, moment,   \* the sampled diagram (empty until sampled)
    doc,         \* make_document has returned a Document
    compiler,    \* find_latex_compiler's result
    tex_written, \* output/report.tex is on disk
    pdf_built,   \* output/report.pdf is on disk
    build_err,   \* the build exception main caught and logged ("" if none)
    tex_failed,  \* a write of the .tex file raised
    err,         \* the exception that left the script ("" if none)
    data,        \* plot_contour_diagrams: the loaded X / Shear / Moment frame
    plotted      \* plot_contour_diagrams: the make_contour_plot calls made

vars == <<pc, table, pos_col, mag_col, forces, validated, L, RA, RB, x, shear,
          moment, doc, compiler, tex_written, pdf_built, build_err,
          tex_failed, err, data, plotted>>

\* Python's None, for a value that is otherwise a tuple or a record
None == <<"None">>
\* the None that find_latex_compiler returns, among the compiler names
NoCompiler == "None"

-----------------------------------------------------------------------------
(* Bounds of the model *)
MaxRows == 2         \* rows of an input table
MaxLoads == 2        \* loads handed directly to the solver / sampler
MaxNum == 3          \* sample count handed directly to the sampler
MaxSeries == 3       \* rows of a precomputed X / Shear / Moment table

-----------------------------------------------------------------------------
(* Float arithmetic *)
Abs(n) == IF n < 0 THEN -n ELSE n
Sgn(n) == IF n < 0 THEN -1 ELSE IF n > 0 THEN 1 ELSE 0

RECURSIVE Gcd(_, _)
Gcd(a, b) == IF b = 0 THEN a ELSE Gcd(b, a % b)

\* the float n/d; d = 0 gives the special with the sign of n
Frac(n, d) ==
    IF d = 0 THEN <<Sgn(n), 0>>
    ELSE LET g == Gcd(Abs(n), Abs(d))
             s == IF d < 0 THEN -1 ELSE 1
         IN  <<(s * n) \div g, (s * d) \div g>>

Num(n) == <<n, 1>>
Zero == Num(0)
NaN == <<0, 0>>
IsFinite(a) == a[2] # 0
IsNaN(a) == a = NaN

FNeg(a) == <<-a[1], a[2]>>

FAdd(a, b) ==
    IF IsFinite(a) /\ IsFinite(b) THEN Frac(a[1] * b[2] + b[1] * a[2], a[2] * b[2])
    ELSE IF IsNaN(a) \/ IsNaN(b) THEN NaN
    ELSE IF ~IsFinite(a) /\ ~IsFinite(b) THEN (IF a = b THEN a ELSE NaN)
    ELSE IF ~IsFinite(a) THEN a ELSE b

FSub(a, b) == FAdd(a, FNeg(b))

FMul(a, b) ==
    IF IsFinite(a) /\ IsFinite(b) THEN Frac(a[1] * b[1], a[2] * b[2])
    ELSE IF IsNaN(a) \/ IsNaN(b) THEN NaN
    ELSE IF a[1] = 0 \/ b[1] = 0 THEN NaN
    ELSE <<Sgn(a[1]) * Sgn(b[1]), 0>>

\* numpy float64 division: x / 0 is +-inf, 0 / 0 is nan, no exception
FDiv(a, b) ==
    IF IsNaN(a) \/ IsNaN(b) THEN NaN
    ELSE IF IsFinite(a) /\ IsFinite(b) THEN Frac(a[1] * b[2], a[2] * b[1])
    ELSE IF ~IsFinite(a) /\ ~IsFinite(b) THEN NaN
    ELSE IF ~IsFinite(b) THEN Zero
    ELSE <<a[1] * (IF b[1] < 0 THEN -1 ELSE 1), 0>>

FLeq(a, b) ==
    IF IsNaN(a) \/ IsNaN(b) THEN FALSE
    ELSE IF IsFinite(a) /\ IsFinite(b) THEN a[1] * b[2] <= b[1] * a[2]
    ELSE IF ~IsFinite(a) THEN (a[1] < 0 \/ a = b)
    ELSE b[1] > 0

FLt(a, b) == FLeq(a, b) /\ a # b

\* Python's builtin max(a, b): the first argument unless the second is greater
PyMax(a, b) == IF FLt(a, b) THEN b ELSE a

-----------------------------------------------------------------------------
(* Text *)
UpperChars == <<"A","B","C","D","E","F","G","H","I","J","K","L","M",
                "N","O","P","Q","R","S","T","U","V","W","X","Y","Z">>
LowerChars == <<"a","b","c","d","e","f","g","h","i","j","k","l","m",
                "n","o","p","q","r","s","t","u","v","w","x","y","z">>

UpperSet == {UpperChars[i] : i \in 1..Len(UpperChars)}
LowerTable ==
    [c \in UpperSet |-> LowerChars[CHOOSE i \in 1..Len(UpperChars) : UpperChars[i] = c]]

LowerChar(c) == IF c \in UpperSet THEN LowerTable[c] ELSE c

\* str.lower()
lower(s) == [i \in 1..Len(s) |-> LowerChar(s[i])]

\* the ASCII characters str.isspace() holds for: tab, line feed, vertical
\* tab, form feed, carriage return, the separators 0x1C to 0x1F and space
\* (the text of this module is ASCII)
Whitespace == {"\t", "\n", "", "\f", "\r", "", "", "", "", " "}

\* str.strip(): leading and trailing whitespace removed
RECURSIVE lstrip(_)
lstrip(s) == IF s # <<>> /\ Head(s) \in Whitespace THEN lstrip(Tail(s)) ELSE s
RECURSIVE rstrip(_)
rstrip(s) ==
    IF s # <<>> /\ s[Len(s)] \in Whitespace THEN rstrip(SubSeq(s, 1, Len(s) - 1)) ELSE s
strip(s) == rstrip(lstrip(s))

\* the substring test `k in c`
Contains(c, k) == \E i \in 0..(Len(c) - Len(k)) : SubSeq(c, i + 1, i + Len(k)) = k

\* list.index(v): the first place of v
index(seq, v) == CHOOSE i \in 1..Len(seq) : seq[i] = v /\ \A j \in 1..(i - 1) : seq[j] # v

\* a column label that is not a str: the int pandas gives for a header cell
\* holding a number.  It is written as one element naming its type, which
\* no text (a sequence of single characters) equals.
IntLabel == <<"int">>
NonTextLabels == {IntLabel}
\* isinstance(c, str): c.lower() exists
IsStr(c) == c \notin NonTextLabels

\* the column names the model's tables use
Position_m == <<"P","o","s","i","t","i","o","n","_","m">>
Load_N == <<"L","o","a","d","_","N">>
NameX == <<"x">>
NameForce == <<"F","o","r","c","e">>
Col1 == <<"c","o","l","1">>
Col2 == <<"c","o","l","2">>

\* the keyword tuples of read_forces
PosKeywords == << <<"p","o","s">>, <<"x">>, <<"d","i","s","t">>,
                  <<"l","o","c","a","t","i","o","n">>, <<"a">> >>
MagKeywords == << <<"l","o","a","d">>, <<"f","o","r","c","e">>, <<"p">>, <<"w">>,
                  <<"m","a","g","n","i","t","u","d","e">> >>

AnyKeyword(c, keys) == \E i \in 1..Len(keys) : Contains(c, keys[i])

-----------------------------------------------------------------------------
(* Table cells: a number (NaN for an empty cell) or non-numeric text *)
NumCell(n) == [k |-> "num", v |-> Num(n)]
NullCell == [k |-> "num", v |-> NaN]
TextCell == [k |-> "text", v |-> NaN]

\* pandas isnull / dropna: an empty cell
IsNull(cell) == cell.k = "num" /\ IsNaN(cell.v)

\* the orderings of 1..n
Orderings(n) == {p \in [1..n -> 1..n] : \A i, j \in 1..n : p[i] = p[j] => i = j}

\* DataFrame.sort_values(first column).reset_index(drop=True): every order
\* the call can return.  The rows come ascending by the key; the default
\* kind='quicksort' is not stable, so rows with equal keys come in any
\* order; na_position='last' puts the rows with a NaN key at the end, in
\* the order they had.
sort_values(rows) ==
    LET keyed == SelectSeq(rows, LAMBDA r : ~IsNaN(r[1]))
        nans == SelectSeq(rows, LAMBDA r : IsNaN(r[1]))
        n == Len(keyed)
        ascending(p) == \A i \in 1..(n - 1) : FLeq(keyed[p[i]][1], keyed[p[i + 1]][1])
    IN  {[i \in 1..n |-> keyed[p[i]]] \o nans : p \in {q \in Orderings(n) : ascending(q)}}

-----------------------------------------------------------------------------
(* The exceptions of the loader and the validator, by their messages *)
MissingFileMsg == "FileNotFoundError: Expected input Excel"
UnreadableMsg == "FileNotFoundError: Could not read Excel file"
NonNumericMsg == "ValueError: Position and magnitude columns must be numeric."
EmptyMsg == "ValueError: No force data found in the Excel file."
NegativeMsg == "ValueError: All positions must be non-negative."
MissingMsg == "ValueError: Some load magnitudes are missing."
PermissionMsg == "PermissionError: data/forces.xlsx"
AttributeMsg == "AttributeError: 'int' object has no attribute 'lower'"
IndexMsg == "IndexError: index out of bounds"

-----------------------------------------------------------------------------
(* generate_report.read_forces *)

\* lines 35-45: [err, ix], ix the indices of the columns taken as position
\* and magnitude.  c.lower() raises AttributeError on a label that is not a
\* str (line 35); the fallback df.columns[0], df.columns[1] raises
\* IndexError on a table of fewer than two columns (lines 44-45).
infer_columns(columns) ==
    IF \E i \in 1..Len(columns) : ~IsStr(columns[i])
    THEN [err |-> AttributeMsg, ix |-> <<>>]
    ELSE LET cols == [i \in 1..Len(columns) |-> lower(columns[i])]
             pos_candidates == SelectSeq(cols, LAMBDA c : AnyKeyword(c, PosKeywords))
             mag_candidates == SelectSeq(cols, LAMBDA c : AnyKeyword(c, MagKeywords))
         IN  IF pos_candidates # <<>> /\ mag_candidates # <<>>
             THEN [err |-> "",
                   ix |-> <<index(cols, pos_candidates[1]), index(cols, mag_candidates[1])>>]
             ELSE IF Len(columns) < 2
             THEN [err |-> IndexMsg, ix |-> <<>>]
             ELSE [err |-> "", ix |-> <<1, 2>>]

dropna_keeps_rows(rows) == rows

\* line 49: forces.dropna()
dropna(rows) == SelectSeq(rows, LAMBDA r : \A j \in 1..Len(r) : ~IsNull(r[j]))

\* lines 29-56 after the read: every [err, pos_col, mag_col, forces] the
\* call can end with
read_forces(tbl) ==
    LET ic == infer_columns(tbl.columns)
        ix == ic.ix
        picked == [i \in 1..Len(tbl.rows) |-> <<tbl.rows[i][ix[1]], tbl.rows[i][ix[2]]>>]
        kept == dropna(picked)
        numeric == \A i \in 1..Len(kept) : kept[i][1].k = "num" /\ kept[i][2].k = "num"
        floats == [i \in 1..Len(kept) |-> <<kept[i][1].v, kept[i][2].v>>]
    IN  IF ic.err # ""
        THEN {[err |-> ic.err, pos_col |-> None, mag_col |-> None, forces |-> <<>>]}
        ELSE {[err |-> IF numeric THEN "" ELSE NonNumericMsg,
               pos_col |-> tbl.columns[ix[1]],
               mag_col |-> tbl.columns[ix[2]],
               forces |-> f] : f \in IF numeric THEN sort_values(floats) ELSE {<<>>}}

-----------------------------------------------------------------------------
(* generate_report.validate_forces: the message raised, "" when it returns *)
validate_forces_no_range_check(f) ==
    IF f = <<>> THEN EmptyMsg
    ELSE IF \E i \in 1..Len(f) : IsNaN(f[i][2]) THEN MissingMsg
    ELSE ""

validate_forces(f) ==
    IF f = <<>> THEN EmptyMsg
    ELSE IF \E i \in 1..Len(f) : FLt(f[i][1], Zero) THEN NegativeMsg
    ELSE IF \E i \in 1..Len(f) : IsNaN(f[i][2]) THEN MissingMsg
    ELSE ""

-----------------------------------------------------------------------------
(* generate_report.compute_reactions *)
\* Series.sum(): skipna=True, a NaN element is left out of the sum
RECURSIVE SumSeq(_)
SumSeq(s) ==
    IF s = <<>> THEN Zero
    ELSE IF IsNaN(s[Len(s)]) THEN SumSeq(SubSeq(s, 1, Len(s) - 1))
    ELSE FAdd(SumSeq(SubSeq(s, 1, Len(s) - 1)), s[Len(s)])

\* forces["mag"].sum()
total_load(f) == SumSeq([i \in 1..Len(f) |-> f[i][2]])
\* (forces["mag"] * forces["pos"]).sum()
moment_about_A(f) == SumSeq([i \in 1..Len(f) |-> FMul(f[i][2], f[i][1])])

compute_reactions_swapped(f, len) ==
    LET rb == FDiv(moment_about_A(f), len)
        ra == FSub(total_load(f), rb)
    IN  <<rb, ra>>

\* <<RA, RB>>
compute_reactions(f, len) ==
    LET rb == FDiv(moment_about_A(f), len)
        ra == FSub(total_load(f), rb)
    IN  <<ra, rb>>

-----------------------------------------------------------------------------
(* generate_report.sample_sfd_bmd *)
DefaultNum == 201    \* num=201
MainNum == 401       \* num=401 in main
TolRoot == 1000000   \* the tolerance 1e-12 is 1 / TolRoot^2

\* np.linspace(0, len, num)[i], i from 0: with num > 1 the last point is len
\* itself; with num = 1 the only point is the start, 0.0
linspace(len, num, i) ==
    IF num = 1 THEN Zero
    ELSE IF i = num - 1 THEN len
    ELSE FMul(FDiv(len, Num(num - 1)), Num(i))

\* line 91: a <= xi + 1e-12
load_applies(a, xi) ==
    \/ FLeq(a, xi)
    \/ LET d == FSub(a, xi)
       IN  IsFinite(d) /\ d[1] > 0 /\ (d[2] \div TolRoot) \div TolRoot >= d[1]

apply_load_no_arm(VM, P, a, xi) ==
    <<FSub(VM[1], P), FSub(VM[2], FMul(P, xi))>>

apply_load_adds_shear(VM, P, a, xi) ==
    <<FAdd(VM[1], P), FSub(VM[2], FMul(P, FSub(xi, a)))>>

\* lines 92-93: V -= P; M -= P * (xi - a)
apply_load(VM, P, a, xi) ==
    <<FSub(VM[1], P), FSub(VM[2], FMul(P, FSub(xi, a)))>>

\* lines 88-93: the loop over the rows, from row k on
RECURSIVE loads_loop(_, _, _, _)
loads_loop(f, k, xi, VM) ==
    IF k > Len(f) THEN VM
    ELSE loads_loop(f, k + 1, xi,
                    IF load_applies(f[k][1], xi)
                    THEN apply_load(VM, f[k][2], f[k][1], xi)
                    ELSE VM)

\* lines 83-95: <<shear, moment>> at sample point xi
sample_point(f, ra, xi) == loads_loop(f, 1, xi, <<ra, FMul(ra, xi)>>)

\* [x, shear, moment], each a sequence of num values
sample_sfd_bmd(f, len, ra, num) ==
    LET xs == [i \in 1..num |-> linspace(len, num, i - 1)]
        vm == [i \in 1..num |-> sample_point(f, ra, xs[i])]
    IN  [x |-> xs,
         shear |-> [i \in 1..num |-> vm[i][1]],
         moment |-> [i \in 1..num |-> vm[i][2]]]

-----------------------------------------------------------------------------
(* State before any script has run *)
InitCommon ==
    /\ table = None /\ pos_col = None /\ mag_col = None
    /\ forces = <<>> /\ validated = FALSE
    /\ L = None /\ RA = None /\ RB = None
    /\ x = <<>> /\ shear = <<>> /\ moment = <<>>
    /\ doc = FALSE /\ compiler = NoCompiler
    /\ tex_written = FALSE /\ pdf_built = FALSE
    /\ build_err = "" /\ tex_failed = FALSE
    /\ err = ""
    /\ data = <<>> /\ plotted = <<>>

-----------------------------------------------------------------------------
(* SpecSolver: compute_reactions and sample_sfd_bmd called directly, as      *)
(* library functions, on load frames sorted by position as read_forces      *)
(* returns them.                                                            *)
SolverPositions == {-1, 0, 1, 2, 3}
SolverMagnitudes == {-1, 2}
SolverSpans == {Num(0), Num(1), Num(2)}

SolverLoad == {<<Num(a), Num(P)>> : a \in SolverPositions, P \in SolverMagnitudes}

IsSortedByPos(f) == \A i \in 1..(Len(f) - 1) : FLeq(f[i][1], f[i + 1][1])

SolverLoadSets ==
    {f \in UNION {[1..n -> SolverLoad] : n \in 0..MaxLoads} : IsSortedByPos(f)}

\* the scenario of two equal loads at 2 and 6 on a span of 10
ScenarioLoads == << <<Num(2), Num(10)>>, <<Num(6), Num(10)>> >>
ScenarioSpan == Num(10)

SolverInputs ==
    {<<f, len>> : f \in SolverLoadSets, len \in SolverSpans}
        \cup {<<ScenarioLoads, ScenarioSpan>>}

SolverInit == InitCommon /\ pc = "solver"

\* RA, RB = compute_reactions(forces, L)
CallComputeReactions ==
    /\ pc = "solver"
    /\ \E in \in SolverInputs :
         LET r == compute_reactions(in[1], in[2])
         IN  /\ forces' = in[1]
             /\ L' = in[2]
             /\ RA' = r[1]
             /\ RB' = r[2]
    /\ pc' = "solved"
    /\ UNCHANGED <<table, pos_col, mag_col, validated, x, shear, moment, doc,
                   compiler, tex_written, pdf_built, build_err, tex_failed,
                   err, data, plotted>>

\* x, shear, moment = sample_sfd_bmd(forces, L, RA, num)
CallSampleSfdBmd ==
    /\ pc = "solved"
    /\ \E num \in (2..MaxNum) \cup {DefaultNum} :
         LET s == sample_sfd_bmd(forces, L, RA, num)
         IN  /\ x' = s.x
             /\ shear' = s.shear
             /\ moment' = s.moment
    /\ pc' = "sampled"
    /\ UNCHANGED <<table, pos_col, mag_col, forces, validated, L, RA, RB, doc,
                   compiler, tex_written, pdf_built, build_err, tex_failed,
                   err, data, plotted>>

SolverNext == CallComputeReactions \/ CallSampleSfdBmd

SpecSolver == SolverInit /\ [][SolverNext]_vars

-----------------------------------------------------------------------------
(* Claims about the solver and the sampler, checked under SpecSolver *)

IsScenario == forces = ScenarioLoads /\ L = ScenarioSpan
Samples == 1..Len(x)

\* C2 as stated: for loads (2, 10), (6, 10) and L = 10 the reactions are
\* R_A = R_B = 10, the shear is +10 left of 2, 0 between 2 and 6, -10 right
\* of 6, and the moment is 20 at x = 2 and x = 6 and 0 at x = 0 and x = 10.
C2_ScenarioAsStated ==
    (IsScenario /\ pc = "sampled") =>
        /\ RA = Num(10) /\ RB = Num(10)
        /\ \A i \in Samples :
             /\ FLt(x[i], Num(2)) => shear[i] = Num(10)
             /\ (FLt(Num(2), x[i]) /\ FLt(x[i], Num(6))) => shear[i] = Zero
             /\ FLt(Num(6), x[i]) => shear[i] = Num(-10)
             /\ x[i] \in {Num(2), Num(6)} => moment[i] = Num(20)
             /\ x[i] \in {Zero, Num(10)} => moment[i] = Zero

\* C2 amended: for loads (2, 10), (6, 10) and L = 10 the reactions are
\* R_A = 12 and R_B = 8, the shear is +12 at every sample left of 2, +2 at
\* every sample between 2 and 6, -8 at every sample right of 6, and the
\* moment is 24 at x = 2, 32 at x = 6 and 0 at x = 0 and x = 10.
C2_Scenario ==
    (IsScenario /\ pc = "sampled") =>
        /\ RA = Num(12) /\ RB = Num(8)
        /\ \A i \in Samples :
             /\ FLt(x[i], Num(2)) => shear[i] = Num(12)
             /\ (FLt(Num(2), x[i]) /\ FLt(x[i], Num(6))) => shear[i] = Num(2)
             /\ FLt(Num(6), x[i]) => shear[i] = Num(-8)
             /\ x[i] = Num(2) => moment[i] = Num(24)
             /\ x[i] = Num(6) => moment[i] = Num(32)
             /\ x[i] \in {Zero, Num(10)} => moment[i] = Zero

\* the scenario sampled at the default resolution, where 0, 2, 6 and 10 are
\* sample points and all three shear regions hold samples
C2_Witness ==
    /\ IsScenario /\ pc = "sampled" /\ Len(x) = DefaultNum
    /\ \A v \in {Zero, Num(2), Num(6), Num(10)} : \E i \in Samples : x[i] = v
    /\ \E i \in Samples : FLt(Num(2), x[i]) /\ FLt(x[i], Num(6))

\* C4 as stated: compute_reactions with L = 0 fails with a domain error and
\* returns no reaction pair.
C4_ZeroSpanFailsFast ==
    (pc \in {"solved", "sampled"} /\ L = Zero) =>
        (err # "" /\ RA = None /\ RB = None)

AllLoadsWithinSpan == \A k \in 1..Len(forces) : FLeq(Zero, forces[k][1]) /\ FLeq(forces[k][1], L)

\* C6 as stated: for any load set (of non-negative positions, loads beyond L
\* included) and any L > 0 the sampled moment is 0 at the first sample
\* point x = 0 and at the last sample point x = L.
C6_EndMomentsZeroAnyLoads ==
    (pc = "sampled" /\ FLt(Zero, L)
       /\ \A k \in 1..Len(forces) : FLeq(Zero, forces[k][1])) =>
        (x[1] = Zero /\ x[Len(x)] = L /\ moment[1] = Zero /\ moment[Len(x)] = Zero)

\* C6 amended: for any L > 0 and any load set whose positions all lie in
\* [0, L] (loads at x = 0 and at x = L included), the sampled moment is 0
\* at the first sample point x = 0 and at the last sample point x = L.
C6_EndMomentsZero ==
    (pc = "sampled" /\ FLt(Zero, L) /\ AllLoadsWithinSpan) =>
        (x[1] = Zero /\ x[Len(x)] = L /\ moment[1] = Zero /\ moment[Len(x)] = Zero)

\* sampled with one load inside the span and one on the right support
C6_Witness ==
    /\ pc = "sampled" /\ FLt(Zero, L) /\ AllLoadsWithinSpan
    /\ Len(forces) = 2 /\ FLt(Zero, forces[1][1]) /\ FLt(forces[1][1], L)
    /\ forces[2][1] = L
    /\ moment[1] = Zero /\ moment[Len(x)] = Zero
    /\ \E i \in Samples : moment[i] # Zero

\* C7: for any load set and any L > 0 the reactions satisfy
\* R_A + R_B = sum of the magnitudes and R_B * L = sum of magnitude *
\* position; for the empty load set R_A = R_B = 0.
C7_Equilibrium ==
    (pc \in {"solved", "sampled"} /\ FLt(Zero, L)) =>
        /\ FAdd(RA, RB) = total_load(forces)
        /\ FMul(RB, L) = moment_about_A(forces)
        /\ forces = <<>> => (RA = Zero /\ RB = Zero)

\* reactions of two loads, both reactions non-zero and different
C7_Witness ==
    /\ pc = "solved" /\ FLt(Zero, L) /\ Len(forces) = 2
    /\ RA # Zero /\ RB # Zero /\ RA # RB
    /\ FAdd(RA, RB) = total_load(forces)

-----------------------------------------------------------------------------
(* SpecReport: one run of generate_report.main *)

\* what data/forces.xlsx may hold: no, one or two columns, a label text or
\* a number, up to MaxRows rows
ReportHeaders == { <<Position_m, Load_N>>, <<Load_N, Position_m>>,
                   <<NameX, NameForce>>, <<Col1, Col2>>,
                   <<IntLabel, Load_N>>, <<Load_N>>, <<Col1>>, <<>> }
FirstCells == {NullCell, TextCell, NumCell(-1), NumCell(0), NumCell(10)}
SecondCells == {NullCell, NumCell(3)}
\* the rows of a table with header h
ReportRow(h) ==
    IF Len(h) = 2 THEN {<<a, b>> : a \in FirstCells, b \in SecondCells}
    ELSE IF Len(h) = 1 THEN {<<a>> : a \in FirstCells}
    ELSE {}
ReportTablesOf(h) ==
    LET row == ReportRow(h)
    IN  [columns : {h}, rows : UNION {[1..n -> row] : n \in 0..MaxRows}]
ReportTables == UNION {ReportTablesOf(h) : h \in ReportHeaders}

\* forces["pos"].max(): skipna=True, NaN only when every position is NaN
RECURSIVE max_pos(_)
max_pos(f) ==
    IF Len(f) = 1 THEN f[1][1]
    ELSE LET m == max_pos(SubSeq(f, 1, Len(f) - 1))
             p == f[Len(f)][1]
         IN  IF IsNaN(m) THEN p
             ELSE IF IsNaN(p) THEN m
             ELSE IF FLt(m, p) THEN p ELSE m

derive_span_scaled_only(f) ==
    IF f # <<>> THEN FMul(max_pos(f), Frac(12, 10)) ELSE Num(10)

\* line 252: max(pos.max() * 1.2, pos.max() + 1.0) if not forces.empty else 10.0
derive_span(f) ==
    IF f # <<>>
    THEN PyMax(FMul(max_pos(f), Frac(12, 10)), FAdd(max_pos(f), Num(1)))
    ELSE Num(10)

Compilers == <<"latexmk", "pdflatex", "xelatex", "lualatex">>

\* lines 230-235: the first compiler shutil.which finds, else None
find_latex_compiler(installed) ==
    IF \E i \in 1..Len(Compilers) : Compilers[i] \in installed
    THEN Compilers[CHOOSE i \in 1..Len(Compilers) :
                     /\ Compilers[i] \in installed
                     /\ \A j \in 1..(i - 1) : Compilers[j] \notin installed]
    ELSE NoCompiler

\* lines 291-294: the exceptions of the build attempt that main catches
caught(exc) == exc \in {"CalledProcessError", "CompilerError"}

ReportInit == InitCommon /\ pc = "main"

Raise(e) == pc' = "raised" /\ err' = e

\* line 239, ensure_dirs (lines 25-26): Path("output").mkdir raises when
\* output exists as a file or cannot be created; nothing catches it
EnsureDirs ==
    /\ pc = "main"
    /\ \/ pc' = "check_input" /\ err' = err
       \/ Raise("OSError: output cannot be created")
    /\ UNCHANGED <<table, pos_col, mag_col, forces, validated, L, RA, RB, x,
                   shear, moment, doc, compiler, tex_written, pdf_built,
                   build_err, tex_failed, data, plotted>>

\* lines 240-243: the input file must exist; Path.exists() itself raises
\* PermissionError when data/ cannot be searched, and nothing catches it
CheckInput ==
    /\ pc = "check_input"
    /\ \/ pc' = "read_forces" /\ err' = err
       \/ Raise(MissingFileMsg)
       \/ Raise(PermissionMsg)
    /\ UNCHANGED <<table, pos_col, mag_col, forces, validated, L, RA, RB, x,
                   shear, moment, doc, compiler, tex_written, pdf_built,
                   build_err, tex_failed, data, plotted>>

\* line 245: forces = read_forces(excel_path), pd.read_excel failing
ReadForcesUnreadable ==
    /\ pc = "read_forces"
    /\ Raise(UnreadableMsg)
    /\ UNCHANGED <<table, pos_col, mag_col, forces, validated, L, RA, RB, x,
                   shear, moment, doc, compiler, tex_written, pdf_built,
                   build_err, tex_failed, data, plotted>>

\* line 245: forces = read_forces(excel_path), pd.read_excel returning a table
ReadForces ==
    /\ pc = "read_forces"
    /\ \E tbl \in ReportTables :
         \E r \in read_forces(tbl) :
             /\ table' = tbl
             /\ pos_col' = r.pos_col
             /\ mag_col' = r.mag_col
             /\ forces' = r.forces
             /\ IF r.err = "" THEN pc' = "validate_forces" /\ err' = err
                ELSE Raise(r.err)
    /\ UNCHANGED <<validated, L, RA, RB, x, shear, moment, doc, compiler,
                   tex_written, pdf_built, build_err, tex_failed, data, plotted>>

\* lines 246-250: validate_forces(forces); its exception is logged and re-raised
ValidateForces ==
    /\ pc = "validate_forces"
    /\ LET e == validate_forces(forces)
       IN  IF e = ""
           THEN pc' = "derive_span" /\ validated' = TRUE /\ err' = err
           ELSE Raise(e) /\ validated' = validated
    /\ UNCHANGED <<table, pos_col, mag_col, forces, L, RA, RB, x, shear, moment,
                   doc, compiler, tex_written, pdf_built, build_err, tex_failed,
                   data, plotted>>

\* lines 252-254
DeriveSpan ==
    /\ pc = "derive_span"
    /\ L' = derive_span(forces)
    /\ pc' = "compute_reactions"
    /\ UNCHANGED <<table, pos_col, mag_col, forces, validated, RA, RB, x, shear,
                   moment, doc, compiler, tex_written, pdf_built, build_err,
                   tex_failed, err, data, plotted>>

\* line 256
ComputeReactions ==
    /\ pc = "compute_reactions"
    /\ LET r == compute_reactions(forces, L)
       IN  RA' = r[1] /\ RB' = r[2]
    /\ pc' = "sample_sfd_bmd"
    /\ UNCHANGED <<table, pos_col, mag_col, forces, validated, L, x, shear,
                   moment, doc, compiler, tex_written, pdf_built, build_err,
                   tex_failed, err, data, plotted>>

\* line 257
SampleSfdBmd ==
    /\ pc = "sample_sfd_bmd"
    /\ LET s == sample_sfd_bmd(forces, L, RA, MainNum)
       IN  x' = s.x /\ shear' = s.shear /\ moment' = s.moment
    /\ pc' = "make_document"
    /\ UNCHANGED <<table, pos_col, mag_col, forces, validated, L, RA, RB, doc,
                   compiler, tex_written, pdf_built, build_err, tex_failed, err,
                   data, plotted>>

\* line 259: make_document returns the document, or raises when the
\* assets directory cannot be created (line 134); nothing catches it
MakeDocument ==
    /\ pc = "make_document"
    /\ \/ doc' = TRUE /\ pc' = "find_latex_compiler" /\ err' = err
       \/ doc' = doc /\ Raise("OSError: assets cannot be created")
    /\ UNCHANGED <<table, pos_col, mag_col, forces, validated, L, RA, RB, x,
                   shear, moment, compiler, tex_written, pdf_built, build_err,
                   tex_failed, data, plotted>>

\* lines 265-266, 269, 295-296: detect a compiler and branch on it
FindCompiler ==
    /\ pc = "find_latex_compiler"
    /\ \E installed \in SUBSET {Compilers[i] : i \in 1..Len(Compilers)} :
         LET c == find_latex_compiler(installed)
         IN  /\ compiler' = c
             /\ pc' = IF c = NoCompiler THEN "fallback"
                      ELSE IF c = "latexmk" THEN "latexmk_generate_tex"
                      ELSE "generate_pdf"
    /\ UNCHANGED <<table, pos_col, mag_col, forces, validated, L, RA, RB, x,
                   shear, moment, doc, tex_written, pdf_built, build_err,
                   tex_failed, err, data, plotted>>

\* what the try block does with exception exc (lines 291-294): caught and
\* logged, then on to the fallback; anything else leaves main at once
BuildRaises(exc) ==
    IF caught(exc)
    THEN build_err' = exc /\ pc' = "fallback" /\ err' = err
    ELSE build_err' = build_err /\ Raise(exc)

\* line 273: doc.generate_tex inside the try block of the latexmk branch
LatexmkGenerateTex ==
    /\ pc = "latexmk_generate_tex"
    /\ \/ /\ tex_written' = TRUE /\ tex_failed' = tex_failed
          /\ pc' = "latexmk_run" /\ err' = err
       \/ /\ tex_failed' = TRUE /\ tex_written' = tex_written
          /\ Raise("OSError")
    /\ UNCHANGED <<table, pos_col, mag_col, forces, validated, L, RA, RB, x,
                   shear, moment, doc, compiler, pdf_built, build_err, data,
                   plotted>>

\* lines 275-286: the image copy (its failure is only logged), then
\* subprocess.run(["latexmk", ...], check=True): latexmk builds the PDF, or
\* exits non-zero (CalledProcessError), or cannot be started (OSError)
LatexmkRun ==
    /\ pc = "latexmk_run"
    /\ \/ /\ pdf_built' = TRUE /\ build_err' = build_err
          /\ pc' = "returned" /\ err' = err
       \/ /\ pdf_built' = pdf_built
          /\ \E exc \in {"CalledProcessError", "OSError"} : BuildRaises(exc)
    /\ UNCHANGED <<table, pos_col, mag_col, forces, validated, L, RA, RB, x,
                   shear, moment, doc, compiler, tex_written, tex_failed, data,
                   plotted>>

\* lines 288-290: doc.generate_pdf writes the .tex, then runs the compiler:
\* it builds the PDF, or exits non-zero (CalledProcessError), or is not
\* found (CompilerError), or cannot be started (OSError)
GeneratePdf ==
    /\ pc = "generate_pdf"
    /\ \/ /\ tex_written' = TRUE /\ pdf_built' = TRUE
          /\ tex_failed' = tex_failed /\ build_err' = build_err
          /\ pc' = "returned" /\ err' = err
       \/ /\ tex_failed' = TRUE /\ tex_written' = tex_written
          /\ pdf_built' = pdf_built /\ build_err' = build_err
          /\ Raise("OSError")
       \/ /\ tex_written' = TRUE /\ tex_failed' = tex_failed
          /\ pdf_built' = pdf_built
          /\ \E exc \in {"CalledProcessError", "CompilerError", "OSError"} :
               BuildRaises(exc)
    /\ UNCHANGED <<table, pos_col, mag_col, forces, validated, L, RA, RB, x,
                   shear, moment, doc, compiler, data, plotted>>

\* lines 297-304: the fallback writes the .tex only; a failure is re-raised
FallbackGenerateTex ==
    /\ pc = "fallback"
    /\ \/ /\ tex_written' = TRUE /\ tex_failed' = tex_failed
          /\ pc' = "returned" /\ err' = err
       \/ /\ tex_failed' = TRUE /\ tex_written' = tex_written
          /\ Raise("OSError")
    /\ UNCHANGED <<table, pos_col, mag_col, forces, validated, L, RA, RB, x,
                   shear, moment, doc, compiler, pdf_built, build_err, data,
                   plotted>>

ReportNext ==
    \/ EnsureDirs
    \/ CheckInput
    \/ ReadForcesUnreadable
    \/ ReadForces
    \/ ValidateForces
    \/ DeriveSpan
    \/ ComputeReactions
    \/ SampleSfdBmd
    \/ MakeDocument
    \/ FindCompiler
    \/ LatexmkGenerateTex
    \/ LatexmkRun
    \/ GeneratePdf
    \/ FallbackGenerateTex

SpecReport == ReportInit /\ [][ReportNext]_vars

-----------------------------------------------------------------------------
(* Claims about the report pipeline, checked under SpecReport *)

TableRead == pos_col # None
PosIndex == index(table.columns, pos_col)
MagIndex == index(table.columns, mag_col)

\* C1 as stated: for a table whose two columns are Position_m and Load_N,
\* in either order, read_forces takes Position_m as the position column
\* and Load_N as the magnitude column.
C1_ColumnInference ==
    (TableRead /\ table.columns \in {<<Position_m, Load_N>>, <<Load_N, Position_m>>}) =>
        (pos_col = Position_m /\ mag_col = Load_N)

HasNullMagnitude ==
    \E i \in 1..Len(table.rows) : IsNull(table.rows[i][MagIndex])
\* the rows of the table with no empty cell in the two selected columns
KeptRows ==
    SelectSeq(table.rows, LAMBDA r : ~IsNull(r[PosIndex]) /\ ~IsNull(r[MagIndex]))
KeptRowsValid ==
    /\ KeptRows # <<>>
    /\ \A i \in 1..Len(KeptRows) :
         /\ KeptRows[i][PosIndex].k = "num" /\ KeptRows[i][MagIndex].k = "num"
         /\ FLeq(Zero, KeptRows[i][PosIndex].v)


\* C8: for every load set that passes validate_forces, the span derived in
\* main is strictly positive and strictly greater than every load position,
\* so compute_reactions never divides by a span <= 0.
C8_SpanCoversLoads ==
    (validated /\ L # None) =>
        /\ FLt(Zero, L)
        /\ \A k \in 1..Len(forces) : FLt(forces[k][1], L)
        /\ RA # None => (IsFinite(RA) /\ IsFinite(RB))

\* a span set by the 1.2 * max branch, over loads at 0 and 10
C8_Witness ==
    /\ validated /\ L = Num(12) /\ RA # None
    /\ Len(forces) = 2 /\ forces[1][1] = Zero /\ forces[2][1] = Num(10)

\* every exception the input check, read_forces and validate_forces raise
LoaderValidatorErrors ==
    {MissingFileMsg, PermissionMsg, UnreadableMsg, AttributeMsg, IndexMsg,
     NonNumericMsg, EmptyMsg, NegativeMsg, MissingMsg}

\* C9: a loader or validator failure is raised before compute_reactions or
\* sample_sfd_bmd is called and before any document is built or written;
\* reactions, samples and documents only come from a load set that has
\* passed validate_forces (non-empty, positions >= 0, no missing magnitude).
C9_NoPartialSuccess ==
    /\ (err \in LoaderValidatorErrors \/ (pc = "raised" /\ ~validated)) =>
         /\ pc = "raised" /\ ~validated
         /\ L = None /\ RA = None /\ RB = None
         /\ x = <<>> /\ shear = <<>> /\ moment = <<>>
         /\ ~doc /\ ~tex_written /\ ~pdf_built
    /\ (L # None \/ RA # None \/ x # <<>> \/ doc \/ tex_written \/ pdf_built) =>
         /\ validated /\ forces # <<>>
         /\ \A k \in 1..Len(forces) :
              FLeq(Zero, forces[k][1]) /\ ~IsNaN(forces[k][2])

\* a run stopped by the validator on a negative position
C9_Witness ==
    /\ pc = "raised" /\ err = NegativeMsg /\ forces # <<>>
    /\ RA = None /\ x = <<>> /\ ~doc

BuiltByCompiler ==
    /\ pc = "returned" /\ compiler # NoCompiler /\ build_err = "" /\ pdf_built
WroteTexOnly ==
    /\ pc = "returned"
    /\ (compiler = NoCompiler \/ build_err \in {"CalledProcessError", "CompilerError"})
    /\ tex_written /\ ~pdf_built /\ ~tex_failed
TexWriteRaised ==
    /\ pc = "raised" /\ tex_failed /\ err = "OSError"

\* C10: once the document is built, a run ends in exactly one of three ways:
\* a detected compiler built the PDF; no compiler was detected or its build
\* failed with CalledProcessError or CompilerError and main wrote report.tex
\* and returned; or writing the .tex failed and the error left main.  A
\* build failure alone never makes main fail, and main never returns without
\* report.tex or report.pdf.  The code breaks it: a detected compiler that
\* cannot be started raises OSError, which lines 291-294 do not catch, so
\* main fails with report.tex written and the fallback never taken.
C10_BuildFallback ==
    doc =>
        /\ pc \in {"returned", "raised"} =>
             /\ BuiltByCompiler \/ WroteTexOnly \/ TexWriteRaised
             /\ ~(BuiltByCompiler /\ WroteTexOnly)
        /\ pc = "raised" => tex_failed
        /\ pc = "returned" => (tex_written \/ pdf_built)
        /\ pc \notin {"returned", "raised"} => ENABLED ReportNext

-----------------------------------------------------------------------------
(* SpecContour: one run of scripts/plot_contour_diagrams.main *)

NameXUpper == <<"X">>
NameXBlank == <<"\t","x"," ","">>
NameShearForce == <<"S","h","e","a","r"," ","f","o","r","c","e">>
NameShear == <<"S","H","E","A","R">>
NameBendingMoment == <<"B","e","n","d","i","n","g"," ","M","o","m","e","n","t">>
NameMoment == <<"m","o","m","e","n","t">>

\* the names find_columns accepts for each key, in the order it tries them
XKeys == << <<"x">>, <<"p","o","s","i","t","i","o","n">>, <<"p","o","s">> >>
ShearKeys == << <<"s","h","e","a","r"," ","f","o","r","c","e">>,
                <<"s","h","e","a","r","_","f","o","r","c","e">>,
                <<"s","h","e","a","r">>,
                <<"s","h","e","a","r","f","o","r","c","e">> >>
MomentKeys == << <<"b","e","n","d","i","n","g"," ","m","o","m","e","n","t">>,
                 <<"b","e","n","d","i","n","g","_","m","o","m","e","n","t">>,
                 <<"m","o","m","e","n","t">>,
                 <<"b","e","n","d","i","n","g","m","o","m","e","n","t">> >>

\* cols[k] for the first k of keys that is a column name lower-cased and
\* stripped: the index of that column (the last one with that name), 0 if none
find_key(columns, keys) ==
    LET cols == [i \in 1..Len(columns) |-> strip(lower(columns[i]))]
        hit(k) == \E i \in 1..Len(cols) : cols[i] = k
    IN  IF \E j \in 1..Len(keys) : hit(keys[j])
        THEN LET j == CHOOSE j \in 1..Len(keys) :
                        hit(keys[j]) /\ \A h \in 1..(j - 1) : ~hit(keys[h])
             IN  CHOOSE i \in 1..Len(cols) :
                   cols[i] = keys[j] /\ \A h \in (i + 1)..Len(cols) : cols[h] # keys[j]
        ELSE 0

\* lines 8-27: [err, cmap], cmap the <<X, Shear, Moment>> column indices,
\* 0 for a key not mapped.  c.lower() raises AttributeError on a label that
\* is not a str (line 10).
find_columns(columns) ==
    IF \E i \in 1..Len(columns) : ~IsStr(columns[i])
    THEN [err |-> AttributeMsg, cmap |-> <<>>]
    ELSE [err |-> "",
          cmap |-> <<find_key(columns, XKeys), find_key(columns, ShearKeys),
                     find_key(columns, MomentKeys)>>]

\* lines 34-45 of load_data, after the read: every [err, data] the call
\* can end with
load_data(tbl) ==
    LET fc == find_columns(tbl.columns)
        cmap == fc.cmap
        picked == [i \in 1..Len(tbl.rows) |->
                     <<tbl.rows[i][cmap[1]], tbl.rows[i][cmap[2]], tbl.rows[i][cmap[3]]>>]
        kept == dropna(picked)
        numeric == \A i \in 1..Len(kept) : \A j \in 1..3 : kept[i][j].k = "num"
        floats == [i \in 1..Len(kept) |-> <<kept[i][1].v, kept[i][2].v, kept[i][3].v>>]
    IN  IF fc.err # ""
        THEN {[err |-> fc.err, data |-> <<>>]}
        ELSE IF 0 \in {cmap[1], cmap[2], cmap[3]}
        THEN {[err |-> "ValueError: Excel must contain columns for X, Shear and Moment", data |-> <<>>]}
        ELSE IF ~numeric
        THEN {[err |-> "ValueError: could not convert string to float", data |-> <<>>]}
        ELSE {[err |-> "", data |-> d] : d \in sort_values(floats)}

\* data[name].to_numpy().astype(float).copy()
column(frame, j) == [i \in 1..Len(frame) |-> frame[i][j]]

zero_first_only(m) == [m EXCEPT ![1] = Zero]

\* lines 101-102: moment[0] = 0.0; moment[-1] = 0.0
zero_ends(m) == [[m EXCEPT ![1] = Zero] EXCEPT ![Len(m)] = Zero]

TitleSFD == <<"S","h","e","a","r"," ","F","o","r","c","e"," ",
              "D","i","a","g","r","a","m"," ","(","S","F","D",")">>
TitleBMD == <<"B","e","n","d","i","n","g"," ","M","o","m","e","n","t"," ",
              "D","i","a","g","r","a","m"," ","(","B","M","D",")">>

\* lines 48-57: what make_contour_plot receives, and the row that every one
\* of the H rows of its image Z holds
make_contour_plot(xs, values, title) ==
    [title |-> title, x |-> xs, values |-> values,
     Z |-> IF Contains(lower(title), NameMoment) THEN zero_ends(values) ELSE values]

ContourHeaders == { <<NameXUpper, NameShearForce, NameBendingMoment>>,
                    <<NameBendingMoment, NameXBlank, NameShear>>,
                    <<NameXUpper, NameShearForce, Load_N>>,
                    <<IntLabel, NameShear, NameMoment>> }
XCells == {NumCell(0), NumCell(10)}
ShearCells == {NumCell(3)}
MomentCells == {NumCell(0), NumCell(15), NullCell, TextCell}
\* the rows of a table with header h: each column holds the cells of the
\* key find_columns maps it to (moment cells for a column it maps to no
\* key); under a header it cannot map, the columns hold x, shear and moment
\* cells in that order
ContourRow(h) ==
    LET fc == find_columns(h)
        c == IF fc.err = "" THEN fc.cmap ELSE <<1, 2, 3>>
        cells(j) == IF j = c[1] THEN XCells
                    ELSE IF j = c[2] THEN ShearCells ELSE MomentCells
    IN  {<<a, b, m>> : a \in cells(1), b \in cells(2), m \in cells(3)}
\* the series x = [0, 5, 10], shear = [3, 3, -2], moment = [0, 15, 0]
ScenarioSeries ==
    [columns |-> <<NameXUpper, NameShearForce, NameBendingMoment>>,
     rows |-> << <<NumCell(0), NumCell(3), NumCell(0)>>,
                 <<NumCell(5), NumCell(3), NumCell(15)>>,
                 <<NumCell(10), NumCell(-2), NumCell(0)>> >>]
ContourTablesOf(h) ==
    LET row == ContourRow(h)
    IN  [columns : {h}, rows : UNION {[1..n -> row] : n \in 0..MaxSeries}]
ContourTables ==
    {ScenarioSeries} \cup UNION {ContourTablesOf(h) : h \in ContourHeaders}

ContourInit == InitCommon /\ pc = "contour_main"

\* line 95, load_data lines 31-33: the file is missing, or p.exists() itself
\* raises PermissionError when data/ cannot be searched
LoadDataMissing ==
    /\ pc = "contour_main"
    /\ \/ Raise("FileNotFoundError: Excel file not found")
       \/ Raise(PermissionMsg)
    /\ UNCHANGED <<table, pos_col, mag_col, forces, validated, L, RA, RB, x,
                   shear, moment, doc, compiler, tex_written, pdf_built,
                   build_err, tex_failed, data, plotted>>

\* line 95, load_data line 34: pd.read_excel raises on a file it cannot
\* parse; nothing catches it
LoadDataUnreadable ==
    /\ pc = "contour_main"
    /\ Raise("pd.read_excel: the file cannot be read as Excel")
    /\ UNCHANGED <<table, pos_col, mag_col, forces, validated, L, RA, RB, x,
                   shear, moment, doc, compiler, tex_written, pdf_built,
                   build_err, tex_failed, data, plotted>>

\* line 95: data = load_data('data/forces.xlsx'), pd.read_excel returning a table
LoadData ==
    /\ pc = "contour_main"
    /\ \E tbl \in ContourTables :
         \E r \in load_data(tbl) :
             /\ table' = tbl
             /\ data' = r.data
             /\ IF r.err = "" THEN pc' = "copy_arrays" /\ err' = err
                ELSE Raise(r.err)
    /\ UNCHANGED <<pos_col, mag_col, forces, validated, L, RA, RB, x, shear,
                   moment, doc, compiler, tex_written, pdf_built, build_err,
                   tex_failed, plotted>>

\* lines 96-98
CopyArrays ==
    /\ pc = "copy_arrays"
    /\ x' = column(data, 1)
    /\ shear' = column(data, 2)
    /\ moment' = column(data, 3)
    /\ pc' = "zero_ends"
    /\ UNCHANGED <<table, pos_col, mag_col, forces, validated, L, RA, RB, doc,
                   compiler, tex_written, pdf_built, build_err, tex_failed,
                   err, data, plotted>>

\* lines 101-102: indexing an empty array raises IndexError
ZeroEnds ==
    /\ pc = "zero_ends"
    /\ IF moment = <<>>
       THEN Raise("IndexError") /\ moment' = moment
       ELSE moment' = zero_ends(moment) /\ pc' = "plot_sfd" /\ err' = err
    /\ UNCHANGED <<table, pos_col, mag_col, forces, validated, L, RA, RB, x,
                   shear, doc, compiler, tex_written, pdf_built, build_err,
                   tex_failed, data, plotted>>

\* line 108: make_contour_plot is handed the shear series; creating the
\* output directory or saving the figure (lines 85-90) may raise, and
\* nothing catches it
PlotShear ==
    /\ pc = "plot_sfd"
    /\ plotted' = Append(plotted, make_contour_plot(x, shear, TitleSFD))
    /\ \/ pc' = "plot_bmd" /\ err' = err
       \/ Raise("OSError: the figure cannot be saved")
    /\ UNCHANGED <<table, pos_col, mag_col, forces, validated, L, RA, RB, x,
                   shear, moment, doc, compiler, tex_written, pdf_built,
                   build_err, tex_failed, data>>

\* lines 111-113: the same for the moment series
PlotMoment ==
    /\ pc = "plot_bmd"
    /\ plotted' = Append(plotted, make_contour_plot(x, moment, TitleBMD))
    /\ \/ pc' = "returned" /\ err' = err
       \/ Raise("OSError: the figure cannot be saved")
    /\ UNCHANGED <<table, pos_col, mag_col, forces, validated, L, RA, RB, x,
                   shear, moment, doc, compiler, tex_written, pdf_built,
                   build_err, tex_failed, data>>

ContourNext ==
    \/ LoadDataMissing
    \/ LoadDataUnreadable
    \/ LoadData
    \/ CopyArrays
    \/ ZeroEnds
    \/ PlotShear
    \/ PlotMoment

SpecContour == ContourInit /\ [][ContourNext]_vars

-----------------------------------------------------------------------------
(* Claims about the precomputed-diagram path, checked under SpecContour *)

\* C5 as stated: the x, shear and moment sequences handed to the renderer
\* are exactly the loaded triples, element for element (the first and last
\* moment values included), and no reaction is computed.
C5_PassedUnchanged ==
    pc = "returned" =>
        /\ Len(plotted) = 2
        /\ plotted[1].x = column(data, 1) /\ plotted[1].values = column(data, 2)
        /\ plotted[2].x = column(data, 1) /\ plotted[2].values = column(data, 3)
        /\ RA = None /\ RB = None

\* C5 amended: for every non-empty loaded series, the x and shear sequences
\* handed to the renderer are exactly the loaded columns, and the moment
\* sequence handed to it is the loaded moment column with its first and
\* last values replaced by 0.0 and every other element unchanged; no
\* reaction is computed.  For an empty loaded series main raises IndexError
\* and hands nothing to the renderer.
C5_PassedWithZeroedEnds ==
    /\ pc = "returned" =>
         /\ data # <<>> /\ Len(plotted) = 2
         /\ plotted[1].x = column(data, 1) /\ plotted[1].values = column(data, 2)
         /\ plotted[2].x = column(data, 1)
         /\ Len(plotted[2].values) = Len(data)
         /\ \A i \in 1..Len(data) :
              plotted[2].values[i] = IF i \in {1, Len(data)} THEN Zero ELSE data[i][3]
    /\ (pc \in {"plot_sfd", "plot_bmd", "returned"}) => (RA = None /\ RB = None)
    /\ (pc = "raised" /\ err = "IndexError") => (data = <<>> /\ plotted = <<>>)
    /\ (pc \in {"plot_sfd", "plot_bmd", "returned"}) => data # <<>>

\* a series of three rows with non-zero moments at both ends was plotted
C5_Witness ==
    /\ pc = "returned" /\ Len(data) = 3
    /\ data[1][3] # Zero /\ data[3][3] # Zero /\ data[2][3] # Zero
    /\ plotted[2].values[2] = data[2][3]
    /\ plotted[2].values[1] = Zero /\ plotted[2].values[3] = Zero

=============================================================================
